---- MODULE Spec2Model ----
(***************************************************************************)
(* Graph state reconciliation and hierarchical visibility of the           *)
(* Network-Monitor frontend (frontend/src/components/NetworkTopology.tsx). *)
(*                                                                         *)
(* The state is the ViewState kept by NetworkTopologyApi (nodes, edges,    *)
(* edgesRef) and the props it is given (initialNodes, initialEdges).  Each *)
(* action is one event handler or effect run to completion.  prev and      *)
(* lastOp are history variables: the ViewState before the last operation   *)
(* and the operation with its arguments.                                   *)
(*                                                                         *)
(* Spec is the topology component under scans and operator gestures, a     *)
(* completed loadData taken as one Reconcile step.  SpecApp is App         *)
(* (frontend/src/App.tsx) request by request: the scan cycle, loadData,    *)
(* the alert poll and saveLayout.  BuildTree is the projection of          *)
(* frontend/src/components/DeviceTree.tsx, applied to the props App gives  *)
(* it.                                                                     *)
(*                                                                         *)
(* Encoding.  A node is a record with the fields id, position, hidden and  *)
(* the members of data (label, type, isWireless) flattened into it; ip and *)
(* mac travel with label through every spread of the source and are not    *)
(* modelled apart.  An absent hidden or isWireless is FALSE, as the code   *)
(* reads it (!firstChild?.hidden, n.hidden, isWireless ? .. : ..).  An     *)
(* edge is a record id, source, target, style (the strokeDasharray string, *)
(* "" when the edge carries no style) and animated.                        *)
(***************************************************************************)
EXTENDS Integers, Sequences, FiniteSets, TLC

VARIABLES nodes, edges, edgesRef, initialNodes, initialEdges, status,
          prev, lastOp, steps,
          isScanning, alerts, notice, scanReqs, timers, loadPc, polls, saveReqs,
          serverGraph

\* App (frontend/src/App.tsx): its state isScanning and alerts, the text of
\* the last alert() dialog, and what is in flight: POST /api/scan requests,
\* post-scan timeouts, the two loadData calls (the one of the mount effect
\* and the one of the post-scan timeout) with the request each awaits, the
\* alert polls of the interval and POST /api/graph/save requests; and, on
\* the server, the snapshot GET /api/graph delivers at present
appVars == <<isScanning, alerts, notice, scanReqs, timers, loadPc, polls,
             saveReqs, serverGraph>>

vars == <<nodes, edges, edgesRef, initialNodes, initialEdges, status,
          prev, lastOp, steps,
          isScanning, alerts, notice, scanReqs, timers, loadPc, polls, saveReqs,
          serverGraph>>

(***************************************************************************)
(* Bounds of the model.                                                    *)
(***************************************************************************)
\* number of operations (scans and operator gestures) in one behaviour
MaxSteps == 4
\* call-stack capacity of the engine running getDescendants, scaled to the
\* model: deeper than the recursion any acyclic edge list over Ids needs
StackLimit == 4

Ids == {"A", "B", "C", "D", "7"}

Min(S) == CHOOSE m \in S : \A n \in S : m <= n

SeqToSet(s) == {s[i] : i \in 1..Len(s)}

\* Array.prototype.some(x => x.id === id)
HasId(s, id) == \E i \in 1..Len(s) : s[i].id = id

\* Array.prototype.find(x => x.id === id), used where HasId holds
FindById(s, id) == s[Min({i \in 1..Len(s) : s[i].id = id})]


(***************************************************************************)
(* Snapshots GET /api/graph can deliver.  Node ids and edge ids are unique *)
(* in a snapshot and every edge joins two nodes of the snapshot.           *)
(* ScanPos, ScanLabel and ScanType are the scanner-side values of a node   *)
(* in scan version v; the edge id is the scanner's "e<source>-<target>".   *)
(***************************************************************************)
Index(id) ==
    CASE id = "A" -> 0 [] id = "B" -> 1 [] id = "C" -> 2 [] id = "7" -> 4
      [] OTHER -> 3

ScanPos(id, v) == [x |-> 100 * Index(id), y |-> 50 * (v - 1)]

ScanLabel(id, v) ==
    CASE id = "A" -> "Cable Modem"
      [] id = "B" -> IF v = 1 THEN "OPNsense-FW" ELSE "OPNsense"
      [] id = "C" -> "Main Switch"
      [] id = "7" -> "Printer"
      [] OTHER    -> IF v = 1 THEN "Office Laptop" ELSE "Laptop"

ScanType(id) ==
    CASE id = "A" -> "Router"
      [] id = "B" -> "Server"
      [] id = "C" -> "infrastructure"
      [] OTHER    -> "Device"

ScanNode(id, v, w, h) ==
    [id |-> id, position |-> ScanPos(id, v), hidden |-> h,
     label |-> ScanLabel(id, v), type |-> ScanType(id), isWireless |-> w]

EdgeId(s, t) == "e" \o s \o "-" \o t

ScanEdge(s, t, w) ==
    [id |-> EdgeId(s, t), source |-> s, target |-> t,
     style |-> IF w THEN "5,5" ELSE "", animated |-> w]

Snapshots == <<
    \* 1: a chain A -> B -> C -> D
    [nodes |-> <<ScanNode("A", 1, FALSE, FALSE), ScanNode("B", 1, FALSE, FALSE),
                 ScanNode("C", 1, FALSE, FALSE), ScanNode("D", 1, FALSE, FALSE)>>,
     edges |-> <<ScanEdge("A", "B", FALSE), ScanEdge("B", "C", FALSE),
                 ScanEdge("C", "D", FALSE)>>],
    \* 2: the same chain in another array order, with other scanner values
    [nodes |-> <<ScanNode("D", 2, TRUE, FALSE), ScanNode("C", 2, FALSE, FALSE),
                 ScanNode("B", 2, FALSE, FALSE), ScanNode("A", 2, FALSE, FALSE)>>,
     edges |-> <<ScanEdge("C", "D", TRUE), ScanEdge("B", "C", FALSE),
                 ScanEdge("A", "B", FALSE)>>],
    \* 3: a diamond A -> {B, C} -> D
    [nodes |-> <<ScanNode("A", 1, FALSE, FALSE), ScanNode("B", 1, FALSE, FALSE),
                 ScanNode("C", 1, FALSE, FALSE), ScanNode("D", 1, FALSE, FALSE)>>,
     edges |-> <<ScanEdge("A", "B", FALSE), ScanEdge("A", "C", FALSE),
                 ScanEdge("B", "D", FALSE), ScanEdge("C", "D", FALSE)>>],
    \* 4: C and D left the network
    [nodes |-> <<ScanNode("A", 1, FALSE, FALSE), ScanNode("B", 2, FALSE, FALSE)>>,
     edges |-> <<ScanEdge("A", "B", FALSE)>>],
    \* 5: two unconnected devices, no edge
    [nodes |-> <<ScanNode("A", 1, FALSE, FALSE), ScanNode("C", 1, TRUE, FALSE)>>,
     edges |-> <<>>],
    \* 6: nothing found
    [nodes |-> <<>>, edges |-> <<>>],
    \* 7: a saved layout served back: C was collapsed away when it was saved
    [nodes |-> <<ScanNode("A", 1, FALSE, FALSE), ScanNode("C", 2, TRUE, TRUE),
                 ScanNode("D", 1, FALSE, FALSE)>>,
     edges |-> <<ScanEdge("A", "C", TRUE), ScanEdge("A", "D", FALSE)>>],
    \* 8: four unconnected devices, one of them with a numeric id
    [nodes |-> <<ScanNode("D", 1, FALSE, FALSE), ScanNode("A", 1, FALSE, FALSE),
                 ScanNode("B", 1, FALSE, FALSE), ScanNode("7", 1, FALSE, FALSE)>>,
     edges |-> <<>>],
    \* 9: A and B left the network
    [nodes |-> <<ScanNode("C", 1, FALSE, FALSE), ScanNode("D", 1, FALSE, FALSE)>>,
     edges |-> <<ScanEdge("C", "D", FALSE)>>] >>

(***************************************************************************)
(* The sync-with-props effect: reconcile(S, G).                            *)
(***************************************************************************)
\* a slip: the merge carries position and isWireless over, not hidden
MergeNode_DropHidden(nds, inode) ==
    IF HasId(nds, inode.id)
    THEN LET existingNode == FindById(nds, inode.id) IN
         [inode EXCEPT !.position = existingNode.position,
                       !.isWireless = existingNode.isWireless]
    ELSE inode

\* the body of initialNodes.map((inode) => ...)
MergeNode(nds, inode) ==
    IF HasId(nds, inode.id)
    THEN LET existingNode == FindById(nds, inode.id) IN
         [inode EXCEPT !.position = existingNode.position,
                       !.hidden = existingNode.hidden,
                       !.isWireless = existingNode.isWireless]
    ELSE inode

\* a slip: the merged snapshot nodes are added to the current list
ReconcileNodes_Append(nds, inodes) ==
    nds \o [i \in 1..Len(inodes) |-> MergeNode(nds, inodes[i])]

\* a slip: nodes the snapshot no longer lists are kept behind the merged ones
ReconcileNodes_KeepStale(nds, inodes) ==
    [i \in 1..Len(inodes) |-> MergeNode(nds, inodes[i])]
        \o SelectSeq(nds, LAMBDA n : ~ HasId(inodes, n.id))

\* a slip: the current node is looked up by its place in the list, not by id
ReconcileNodes_ByIndex(nds, inodes) ==
    [i \in 1..Len(inodes) |->
        IF i <= Len(nds)
        THEN [inodes[i] EXCEPT !.position = nds[i].position,
                               !.hidden = nds[i].hidden,
                               !.isWireless = nds[i].isWireless]
        ELSE inodes[i]]

\* setNodes((nds) => initialNodes.map(...))
ReconcileNodes(nds, inodes) ==
    [i \in 1..Len(inodes) |-> MergeNode(nds, inodes[i])]

\* a slip: the snapshot's edge replaces the current one, style included
MergeEdge_TakeNew(eds, newEdge) == newEdge

\* the body of initialEdges.map(newEdge => ...)
MergeEdge(eds, newEdge) ==
    IF HasId(eds, newEdge.id)
    THEN LET existingEdge == FindById(eds, newEdge.id) IN
         [newEdge EXCEPT !.style = existingEdge.style,
                         !.animated = existingEdge.animated]
    ELSE newEdge

\* if (initialEdges && initialEdges.length > 0) setEdges((eds) => ...)
ReconcileEdges(eds, iedges) ==
    IF Len(iedges) > 0
    THEN IF Len(eds) = 0 THEN iedges
         ELSE [i \in 1..Len(iedges) |-> MergeEdge(eds, iedges[i])]
    ELSE eds

(***************************************************************************)
(* Descendants of a list of node ids.  The source recurses without a       *)
(* visited set; a recursion deeper than the call stack ends in a           *)
(* RangeError, here ok = FALSE.                                            *)
(***************************************************************************)
ChildrenOf(id, allEdges) ==
    LET out == SelectSeq(allEdges, LAMBDA e : e.source = id) IN
    [i \in 1..Len(out) |-> out[i].target]

RECURSIVE GetDescendants(_, _, _)
RECURSIVE DescendantsOfEach(_, _, _, _)

\* ids.forEach(id => { ... descendants = [...descendants, ...getDescendants(children)] })
DescendantsOfEach(ids, allEdges, depth, acc) ==
    IF ids = <<>> THEN [ok |-> TRUE, ids |-> acc]
    ELSE LET children == ChildrenOf(Head(ids), allEdges) IN
         IF Len(children) > 0
         THEN LET sub == GetDescendants(children, allEdges, depth + 1) IN
              IF sub.ok
              THEN DescendantsOfEach(Tail(ids), allEdges, depth, acc \o sub.ids)
              ELSE sub
         ELSE DescendantsOfEach(Tail(ids), allEdges, depth, acc)

\* a slip: the direct children only, no recursion
GetDescendants_DirectOnly(ids, allEdges, depth) == [ok |-> TRUE, ids |-> ids]

GetDescendants(ids, allEdges, depth) ==
    IF depth > StackLimit THEN [ok |-> FALSE, ids |-> <<>>]
    ELSE DescendantsOfEach(ids, allEdges, depth, ids)

(***************************************************************************)
(* onToggleChildren: the setNodes updater.  The result is the new node     *)
(* list, or ok = FALSE when the updater throws.                            *)
(***************************************************************************)
\* a slip: the toggle only ever collapses
ShouldHide_Always(currentNodes, childIds) == TRUE

\* a slip: the last direct child decides instead of the first
ShouldHide_LastChild(currentNodes, childIds) ==
    IF HasId(currentNodes, childIds[Len(childIds)])
    THEN ~ FindById(currentNodes, childIds[Len(childIds)]).hidden
    ELSE TRUE

\* const shouldHide = !firstChild?.hidden
ShouldHide(currentNodes, childIds) ==
    IF HasId(currentNodes, childIds[1])
    THEN ~ FindById(currentNodes, childIds[1]).hidden
    ELSE TRUE

\* a slip: the toggled node is updated together with its descendants
OnToggleChildren_InclSelf(currentNodes, currentEdges, nodeId) ==
    LET childIds == ChildrenOf(nodeId, currentEdges) IN
    IF Len(childIds) = 0 THEN [ok |-> TRUE, nodes |-> currentNodes]
    ELSE LET shouldHide == ShouldHide(currentNodes, childIds)
             d == GetDescendants(childIds, currentEdges, 1)
             nodesToUpdate == SeqToSet(d.ids) \cup {nodeId}
         IN  IF ~ d.ok THEN [ok |-> FALSE, nodes |-> currentNodes]
             ELSE [ok |-> TRUE,
                   nodes |-> [i \in 1..Len(currentNodes) |->
                       IF currentNodes[i].id \in nodesToUpdate
                       THEN [currentNodes[i] EXCEPT !.hidden = shouldHide]
                       ELSE currentNodes[i]]]

OnToggleChildren(currentNodes, currentEdges, nodeId) ==
    LET childIds == ChildrenOf(nodeId, currentEdges) IN
    IF Len(childIds) = 0 THEN [ok |-> TRUE, nodes |-> currentNodes]
    ELSE LET shouldHide == ShouldHide(currentNodes, childIds)
             d == GetDescendants(childIds, currentEdges, 1)
             nodesToUpdate == SeqToSet(d.ids)
         IN  IF ~ d.ok THEN [ok |-> FALSE, nodes |-> currentNodes]
             ELSE [ok |-> TRUE,
                   nodes |-> [i \in 1..Len(currentNodes) |->
                       IF currentNodes[i].id \in nodesToUpdate
                       THEN [currentNodes[i] EXCEPT !.hidden = shouldHide]
                       ELSE currentNodes[i]]]

(***************************************************************************)
(* onWirelessToggle: setEdges and setNodes.                                *)
(***************************************************************************)
\* a slip: the edges leaving the node are restyled, not the ones entering it
WirelessEdges_BySource(eds, nodeId, isWireless) ==
    [i \in 1..Len(eds) |->
        IF eds[i].source = nodeId
        THEN [eds[i] EXCEPT !.style = IF isWireless THEN "5,5" ELSE "0",
                            !.animated = isWireless]
        ELSE eds[i]]

WirelessEdges(eds, nodeId, isWireless) ==
    [i \in 1..Len(eds) |->
        IF eds[i].target = nodeId
        THEN [eds[i] EXCEPT !.style = IF isWireless THEN "5,5" ELSE "0",
                            !.animated = isWireless]
        ELSE eds[i]]

WirelessNodes(nds, nodeId, isWireless) ==
    [i \in 1..Len(nds) |->
        IF nds[i].id = nodeId
        THEN [nds[i] EXCEPT !.isWireless = isWireless]
        ELSE nds[i]]

(***************************************************************************)
(* onConnect: the new edge takes the wireless state of its target node;    *)
(* addEdge (reactflow) leaves the list alone when the connection exists.   *)
(***************************************************************************)
ConnectionExists(eds, source, target) ==
    \E i \in 1..Len(eds) : eds[i].source = source /\ eds[i].target = target

OnConnect(nds, eds, source, target) ==
    LET isWireless == HasId(nds, target) /\ FindById(nds, target).isWireless
        newEdge == [id |-> EdgeId(source, target), source |-> source,
                    target |-> target,
                    style |-> IF isWireless THEN "5,5" ELSE "0",
                    animated |-> isWireless]
    IN  IF ConnectionExists(eds, source, target) THEN eds
        ELSE Append(eds, newEdge)

\* onEdgesDelete: eds.filter(e => !deleted.some(d => d.id === e.id))
OnEdgesDelete(eds, deleted) ==
    SelectSeq(eds, LAMBDA e : e.id \notin deleted)

(***************************************************************************)
(* onNodeDragStop for a drag of nodeId by (dx, dy): the early return on a   *)
(* zero delta, then the setNodes updater.                                  *)
(***************************************************************************)
Shift(n, dx, dy) ==
    [n EXCEPT !.position = [x |-> n.position.x + dx, y |-> n.position.y + dy]]

\* a slip: every descendant is moved, hidden or not
OnNodeDragStop_MoveAll(currentNodes, currentEdges, nodeId, dx, dy) ==
    IF dx = 0 /\ dy = 0 THEN [ok |-> TRUE, nodes |-> currentNodes]
    ELSE
    LET childIds == ChildrenOf(nodeId, currentEdges)
        d == GetDescendants(childIds, currentEdges, 1)
        nodesToUpdate == SeqToSet(d.ids)
    IN  IF ~ d.ok THEN [ok |-> FALSE, nodes |-> currentNodes]
        ELSE [ok |-> TRUE,
              nodes |-> [i \in 1..Len(currentNodes) |->
                  IF currentNodes[i].id \in nodesToUpdate
                  THEN Shift(currentNodes[i], dx, dy)
                  ELSE currentNodes[i]]]

\* how often id stands in a list of ids
Occurrences(ids, id) == Cardinality({i \in 1..Len(ids) : ids[i] = id})

\* a slip: the delta is applied per entry of descendants, not per node
OnNodeDragStop_PerPath(currentNodes, currentEdges, nodeId, dx, dy) ==
    IF dx = 0 /\ dy = 0 THEN [ok |-> TRUE, nodes |-> currentNodes]
    ELSE
    LET childIds == ChildrenOf(nodeId, currentEdges)
        d == GetDescendants(childIds, currentEdges, 1)
    IN  IF ~ d.ok THEN [ok |-> FALSE, nodes |-> currentNodes]
        ELSE [ok |-> TRUE,
              nodes |-> [i \in 1..Len(currentNodes) |->
                  IF currentNodes[i].hidden
                  THEN Shift(currentNodes[i],
                             Occurrences(d.ids, currentNodes[i].id) * dx,
                             Occurrences(d.ids, currentNodes[i].id) * dy)
                  ELSE currentNodes[i]]]

\* a slip: no early return on a zero delta
OnNodeDragStop_NoGuard(currentNodes, currentEdges, nodeId, dx, dy) ==
    LET childIds == ChildrenOf(nodeId, currentEdges)
        d == GetDescendants(childIds, currentEdges, 1)
        nodesToUpdate == SeqToSet(d.ids)
    IN  IF ~ d.ok THEN [ok |-> FALSE, nodes |-> currentNodes]
        ELSE [ok |-> TRUE,
              nodes |-> [i \in 1..Len(currentNodes) |->
                  IF currentNodes[i].id \in nodesToUpdate /\ currentNodes[i].hidden
                  THEN Shift(currentNodes[i], dx, dy)
                  ELSE currentNodes[i]]]

OnNodeDragStop(currentNodes, currentEdges, nodeId, dx, dy) ==
    IF dx = 0 /\ dy = 0 THEN [ok |-> TRUE, nodes |-> currentNodes]
    ELSE
    LET childIds == ChildrenOf(nodeId, currentEdges)
        d == GetDescendants(childIds, currentEdges, 1)
        nodesToUpdate == SeqToSet(d.ids)
    IN  IF ~ d.ok THEN [ok |-> FALSE, nodes |-> currentNodes]
        ELSE [ok |-> TRUE,
              nodes |-> [i \in 1..Len(currentNodes) |->
                  IF currentNodes[i].id \in nodesToUpdate /\ currentNodes[i].hidden
                  THEN Shift(currentNodes[i], dx, dy)
                  ELSE currentNodes[i]]]

\* the rendering surface moves the dragged node itself (onNodesChange)
MoveNode(nds, nodeId, dx, dy) ==
    [i \in 1..Len(nds) |->
        IF nds[i].id = nodeId THEN Shift(nds[i], dx, dy) ELSE nds[i]]

(***************************************************************************)
(* DeviceTree.buildTree: project(nodes, edges).  The forest is the        *)
(* sequence of root ids with, per id, the record of nodeMap; children      *)
(* holds ids, as the records of the source hold references to the shared   *)
(* records of nodeMap.                                                     *)
(***************************************************************************)
\* the characters of a label or of a priority name, cut into the pieces the
\* names of the model share
Tokens(str) ==
    CASE str = "Cable Modem"   -> <<"Cable", " ", "Modem">>
      [] str = "Proxmox-Host"  -> <<"Proxmox", "-", "Host">>
      [] str = "OPNsense"      -> <<"OPNsense">>
      [] str = "OPNsense-FW"   -> <<"OPNsense", "-", "FW">>
      [] str = "Main Switch"   -> <<"Main", " ", "Switch">>
      [] str = "Office Laptop" -> <<"Office", " ", "Laptop">>
      [] str = "Laptop"        -> <<"Laptop">>
      [] OTHER                 -> <<str>>

\* String.prototype.includes
Includes(label, name) ==
    LET l == Tokens(label)
        n == Tokens(name)
    IN  \E k \in 0..(Len(l) - Len(n)) : SubSeq(l, k + 1, k + Len(n)) = n

InfraOrder == <<"Cable Modem", "Proxmox-Host", "OPNsense", "Main Switch">>

\* getOrder: findIndex over infraOrder, 999 when nothing matches
GetOrder(label) ==
    LET hits == {i \in 1..Len(InfraOrder) : Includes(label, InfraOrder[i])}
    IN  IF hits = {} THEN 999 ELSE Min(hits) - 1

\* the value of a property key that is a canonical array index, else -1
ArrayIndex(key) == IF key = "7" THEN 7 ELSE -1

\* the keys of nodeMap in the order Object.values walks them: array-index
\* keys in ascending numeric order, then the other keys as first inserted
OwnKeys(nds) ==
    LET first == SelectSeq([i \in 1..Len(nds) |-> [id |-> nds[i].id, at |-> i]],
                           LAMBDA k : \A j \in 1..(k.at - 1) : nds[j].id # k.id)
        keys  == [i \in 1..Len(first) |-> first[i].id]
        ints  == SortSeq(SelectSeq(keys, LAMBDA k : ArrayIndex(k) >= 0),
                         LAMBDA a, b : ArrayIndex(a) < ArrayIndex(b))
    IN  ints \o SelectSeq(keys, LAMBDA k : ArrayIndex(k) < 0)

\* a slip: an edge counts when its target alone is a known node
ResolvedEdges_TargetOnly(nds, eds) ==
    SelectSeq(eds, LAMBDA e : HasId(nds, e.target))

\* a slip: a node is linked under the first of its parents only
ResolvedEdges_FirstParent(nds, eds) ==
    LET at == [i \in 1..Len(eds) |-> [e |-> eds[i], i |-> i]]
        kept == SelectSeq(at, LAMBDA x :
                    /\ HasId(nds, x.e.source) /\ HasId(nds, x.e.target)
                    /\ \A j \in 1..(x.i - 1) : eds[j].target # x.e.target)
    IN  [i \in 1..Len(kept) |-> kept[i].e]

\* the edges that pass nodeMap[e.source] && nodeMap[e.target]
ResolvedEdges(nds, eds) ==
    SelectSeq(eds, LAMBDA e : HasId(nds, e.source) /\ HasId(nds, e.target))

\* the record nodeMap holds under id: built from the last node with that id
TreeNode(nds, eds, id) ==
    LET n == nds[CHOOSE i \in 1..Len(nds) :
                    /\ nds[i].id = id
                    /\ \A j \in (i + 1)..Len(nds) : nds[j].id # id]
        links == SelectSeq(ResolvedEdges(nds, eds), LAMBDA e : e.source = id)
    IN  [id |-> id,
         label |-> IF n.label = "" THEN id ELSE n.label,
         type |-> IF n.type = "" THEN "Device" ELSE n.type,
         children |-> [i \in 1..Len(links) |-> links[i].target]]

\* Array.prototype.sort by getOrder(a.label) - getOrder(b.label): stable
SortRoots(roots, nodeMap) ==
    LET rank(id) == GetOrder(nodeMap[id].label)
        ranks == {rank(roots[i]) : i \in 1..Len(roots)}
        F[R \in SUBSET ranks] ==
            IF R = {} THEN <<>>
            ELSE LET r == Min(R) IN
                 SelectSeq(roots, LAMBDA id : rank(id) = r) \o F[R \ {r}]
    IN  F[ranks]

BuildTree(nds, eds) ==
    LET nodeMap == [id \in {nds[i].id : i \in 1..Len(nds)} |->
                       TreeNode(nds, eds, id)]
        res == ResolvedEdges(nds, eds)
        childrenIds == {res[i].target : i \in 1..Len(res)}
        roots == SelectSeq(OwnKeys(nds), LAMBDA id : id \notin childrenIds)
    IN  [roots |-> SortRoots(roots, nodeMap), nodeMap |-> nodeMap]

(***************************************************************************)
(* What the operator can do on the rendering surface.                      *)
(***************************************************************************)
\* DeviceNode shows the rollup control for these types only
CollapsibleTypes == {"infrastructure", "Router", "Server"}

\* a node the surface renders: present and not hidden
Rendered(id) == HasId(nodes, id) /\ ~ FindById(nodes, id).hidden

\* connections the operator draws: a back edge, a shortcut and a self-loop
ConnectPairs == {<<"B", "A">>, <<"A", "D">>, <<"A", "A">>}

\* drags: a click without movement, and two movements
DragDeltas == {<<0, 0>>, <<10, 5>>, <<0, 5>>}

Op(op, id, to, g, dx, dy) ==
    [op |-> op, id |-> id, to |-> to, g |-> g, dx |-> dx, dy |-> dy]

View == [nodes |-> nodes, edges |-> edges]

\* App's layout buffer: the onLayoutChange effect hands it every ViewState
CurrentLayout == View

\* the props App gives DeviceTree
TreeProps ==
    [nodes |-> IF Len(CurrentLayout.nodes) > 0 THEN CurrentLayout.nodes
               ELSE initialNodes,
     edges |-> IF Len(CurrentLayout.edges) > 0 THEN CurrentLayout.edges
               ELSE initialEdges]

\* what DeviceTree shows
TreeData == BuildTree(TreeProps.nodes, TreeProps.edges)

Running == status = "running" /\ steps < MaxSteps

(***************************************************************************)
(* Initial state: App mounts with nodes = [] and edges = [], and the       *)
(* topology component starts from these props.                             *)
(***************************************************************************)
Init ==
    /\ nodes = <<>>
    /\ edges = <<>>
    /\ edgesRef = <<>>
    /\ initialNodes = <<>>
    /\ initialEdges = <<>>
    /\ status = "running"
    /\ prev = [nodes |-> <<>>, edges |-> <<>>]
    /\ lastOp = Op("mount", "", "", 0, 0, 0)
    /\ steps = 0
    /\ isScanning = FALSE
    /\ alerts = <<>>
    /\ notice = ""
    /\ scanReqs = 0
    /\ timers = 0
    /\ loadPc = [mount |-> "graph", scan |-> "idle"]
    /\ polls = 0
    /\ saveReqs = 0
    /\ serverGraph = 1

\* App sets its nodes and edges; the props change and the sync effect runs
SyncEffect(inodes, iedges) ==
    /\ initialNodes' = inodes
    /\ initialEdges' = iedges
    /\ nodes' = ReconcileNodes(nodes, inodes)
    /\ edges' = ReconcileEdges(edges, iedges)
    /\ edgesRef' = edges'

\* loadData delivers snapshot g: a scan cycle or the first load, taken as
\* one step
Reconcile(g) ==
    /\ Running
    /\ SyncEffect(Snapshots[g].nodes, Snapshots[g].edges)
    /\ prev' = View
    /\ lastOp' = Op("reconcile", "", "", g, 0, 0)
    /\ steps' = steps + 1
    /\ UNCHANGED status
    /\ UNCHANGED appVars

\* a click on the rollup control of node id
ToggleChildren(id) ==
    /\ Running
    /\ Rendered(id)
    /\ FindById(nodes, id).type \in CollapsibleTypes
    /\ LET r == OnToggleChildren(nodes, edgesRef, id) IN
        /\ nodes' = r.nodes
        /\ status' = IF r.ok THEN status ELSE "crashed"
    /\ prev' = View
    /\ lastOp' = Op("toggle", id, "", 0, 0, 0)
    /\ steps' = steps + 1
    /\ UNCHANGED <<edges, edgesRef, initialNodes, initialEdges>>
    /\ UNCHANGED appVars

\* a click on the connection button of node id (handleWirelessToggle)
WirelessToggle(id) ==
    /\ Running
    /\ Rendered(id)
    /\ LET isWireless == ~ FindById(nodes, id).isWireless IN
        /\ edges' = WirelessEdges(edges, id, isWireless)
        /\ nodes' = WirelessNodes(nodes, id, isWireless)
    /\ edgesRef' = edges'
    /\ prev' = View
    /\ lastOp' = Op("wireless", id, "", 0, 0, 0)
    /\ steps' = steps + 1
    /\ UNCHANGED <<initialNodes, initialEdges, status>>
    /\ UNCHANGED appVars

\* the operator draws a connection from source to target
Connect(source, target) ==
    /\ Running
    /\ Rendered(source) /\ Rendered(target)
    /\ edges' = OnConnect(nodes, edges, source, target)
    /\ edgesRef' = edges'
    /\ prev' = View
    /\ lastOp' = Op("connect", source, target, 0, 0, 0)
    /\ steps' = steps + 1
    /\ UNCHANGED <<nodes, initialNodes, initialEdges, status>>
    /\ UNCHANGED appVars

\* the operator selects the edge with this id and deletes it
EdgesDelete(id) ==
    /\ Running
    /\ HasId(edges, id)
    /\ edges' = OnEdgesDelete(edges, {id})
    /\ edgesRef' = edges'
    /\ prev' = View
    /\ lastOp' = Op("delete", id, "", 0, 0, 0)
    /\ steps' = steps + 1
    /\ UNCHANGED <<nodes, initialNodes, initialEdges, status>>
    /\ UNCHANGED appVars

\* a completed drag of node id: onNodeDragStart, the surface moves the node
\* by (dx, dy), onNodeDragStop
NodeDrag(id, dx, dy) ==
    /\ Running
    /\ Rendered(id)
    /\ LET r == OnNodeDragStop(MoveNode(nodes, id, dx, dy), edgesRef, id, dx, dy) IN
        /\ nodes' = r.nodes
        /\ status' = IF r.ok THEN status ELSE "crashed"
    /\ prev' = View
    /\ lastOp' = Op("drag", id, "", 0, dx, dy)
    /\ steps' = steps + 1
    /\ UNCHANGED <<edges, edgesRef, initialNodes, initialEdges>>
    /\ UNCHANGED appVars

Next ==
    \/ \E g \in 1..Len(Snapshots) : Reconcile(g)
    \/ \E id \in Ids : ToggleChildren(id)
    \/ \E id \in Ids : WirelessToggle(id)
    \/ \E p \in ConnectPairs : Connect(p[1], p[2])
    \/ \E s, t \in Ids : EdgesDelete(EdgeId(s, t))
    \/ \E id \in Ids, d \in DragDeltas : NodeDrag(id, d[1], d[2])

Spec == Init /\ [][Next]_vars

(***************************************************************************)
(* App: the scan cycle, loadData, the alert poll and saveLayout, request   *)
(* by request.  A request in flight settles in its own step: it resolves   *)
(* or it rejects (axios rejects on a transport error and on a status       *)
(* outside 2xx; fetch rejects on a transport error only).  Delays are not  *)
(* modelled: a timeout fires at some later step.                           *)
(***************************************************************************)
\* clicks of the operator (Scan Network, Save Layout, an edit of the layout)
\* in one behaviour of the App specification
MaxClicks == 2
\* alert polls the interval may have in flight at once
MaxPolls == 1

AppRunning == status = "running" /\ steps < MaxClicks

\* what GET /api/alerts can deliver
AlertFeeds == {<<>>, <<"new device">>}

\* the snapshots a scan can leave on the server
ServerGraphs == {1, 5}

\* what GET /api/graph can do: reject, or deliver a snapshot
GraphOutcomes ==
    {[ok |-> FALSE, g |-> 0]} \cup {[ok |-> TRUE, g |-> g] : g \in ServerGraphs}

\* what POST /api/graph/save can do: resolve with a 2xx response, resolve
\* with an error response, reject
SaveOutcomes == {"ok", "httpError", "networkError"}

viewVars == <<nodes, edges, edgesRef, initialNodes, initialEdges, status>>

\* a slip: a failed fetch clears the graph
LoadedProps_ClearOnFailure(outcome, cur) ==
    IF outcome.ok
    THEN [nodes |-> Snapshots[outcome.g].nodes,
          edges |-> Snapshots[outcome.g].edges]
    ELSE [nodes |-> <<>>, edges |-> <<>>]

\* loadData: App's nodes and edges after the await of getGraphData(); a
\* rejection leaves the function before setNodes and setEdges
LoadedProps(outcome, cur) ==
    IF outcome.ok
    THEN [nodes |-> Snapshots[outcome.g].nodes,
          edges |-> Snapshots[outcome.g].edges]
    ELSE cur

\* a slip: setIsScanning(false) after the await, not in a finally
AfterLoad_NoFinally(origin, ok, scanning) ==
    IF origin = "scan" /\ ok THEN FALSE ELSE scanning

\* isScanning when a loadData call has ended: the timeout callback of
\* handleScan resets it in its finally, the mount effect leaves it alone
AfterLoad(origin, ok, scanning) ==
    IF origin = "scan" THEN FALSE ELSE scanning

\* where a loadData call stands once it has ended
Ended(origin) == IF origin = "mount" THEN "done" ELSE "idle"

\* saveLayout: the dialog after the await of fetch
SaveNotice(outcome) ==
    IF outcome = "networkError" THEN "error" ELSE "saved"

\* a click on Scan Network; the button is disabled while isScanning
HandleScan ==
    /\ AppRunning
    /\ ~ isScanning
    /\ isScanning' = TRUE
    /\ scanReqs' = scanReqs + 1
    /\ timers' = timers + 1
    /\ prev' = View
    /\ lastOp' = Op("scan", "", "", 0, 0, 0)
    /\ steps' = steps + 1
    /\ UNCHANGED viewVars
    /\ UNCHANGED <<alerts, notice, loadPc, polls, saveReqs>>
    /\ UNCHANGED serverGraph

\* POST /api/scan settles; nothing awaits it, a rejection is logged.  A
\* scan that has finished leaves its result g on the server
ScanSettles(ok, g) ==
    /\ scanReqs > 0
    /\ scanReqs' = scanReqs - 1
    /\ serverGraph' = IF ok THEN g ELSE serverGraph
    /\ prev' = View
    /\ lastOp' = Op("scanDone", "", IF ok THEN "ok" ELSE "failed", 0, 0, 0)
    /\ UNCHANGED viewVars
    /\ UNCHANGED <<steps, isScanning, alerts, notice, timers, loadPc, polls,
                   saveReqs>>

\* the post-scan timeout fires and calls loadData
TimerFires ==
    /\ timers > 0
    /\ timers' = timers - 1
    /\ loadPc' = [loadPc EXCEPT !.scan = "graph"]
    /\ prev' = View
    /\ lastOp' = Op("timer", "", "", 0, 0, 0)
    /\ UNCHANGED viewVars
    /\ UNCHANGED <<steps, isScanning, alerts, notice, scanReqs, polls, saveReqs>>
    /\ UNCHANGED serverGraph

\* GET /api/graph of a loadData call settles
GraphSettles(origin, outcome) ==
    /\ loadPc[origin] = "graph"
    /\ outcome.ok => outcome.g = serverGraph
    /\ LET cur == [nodes |-> initialNodes, edges |-> initialEdges]
           p == LoadedProps(outcome, cur)
       IN  IF outcome.ok \/ p # cur
           THEN SyncEffect(p.nodes, p.edges)
           ELSE UNCHANGED <<nodes, edges, edgesRef, initialNodes, initialEdges>>
    /\ loadPc' = [loadPc EXCEPT
                     ![origin] = IF outcome.ok THEN "alerts" ELSE Ended(origin)]
    /\ isScanning' = IF outcome.ok THEN isScanning
                     ELSE AfterLoad(origin, FALSE, isScanning)
    /\ prev' = View
    /\ lastOp' = Op("graphDone", origin, IF outcome.ok THEN "ok" ELSE "failed",
                    outcome.g, 0, 0)
    /\ UNCHANGED <<status, steps, alerts, notice, scanReqs, timers, polls,
                   saveReqs>>
    /\ UNCHANGED serverGraph

\* GET /api/alerts of a loadData call settles
AlertsSettle(origin, ok, feed) ==
    /\ loadPc[origin] = "alerts"
    /\ alerts' = IF ok THEN feed ELSE alerts
    /\ loadPc' = [loadPc EXCEPT ![origin] = Ended(origin)]
    /\ isScanning' = AfterLoad(origin, ok, isScanning)
    /\ prev' = View
    /\ lastOp' = Op("alertsDone", origin, IF ok THEN "ok" ELSE "failed", 0, 0, 0)
    /\ UNCHANGED viewVars
    /\ UNCHANGED <<steps, notice, scanReqs, timers, polls, saveReqs>>
    /\ UNCHANGED serverGraph

\* the 10 s interval ticks: getAlerts()
PollTick ==
    /\ polls < MaxPolls
    /\ polls' = polls + 1
    /\ prev' = View
    /\ lastOp' = Op("pollTick", "", "", 0, 0, 0)
    /\ UNCHANGED viewVars
    /\ UNCHANGED <<steps, isScanning, alerts, notice, scanReqs, timers, loadPc,
                   saveReqs>>
    /\ UNCHANGED serverGraph

\* GET /api/alerts of the interval settles: .then(setAlerts), no catch
PollSettles(ok, feed) ==
    /\ polls > 0
    /\ polls' = polls - 1
    /\ alerts' = IF ok THEN feed ELSE alerts
    /\ prev' = View
    /\ lastOp' = Op("pollDone", "", IF ok THEN "ok" ELSE "failed", 0, 0, 0)
    /\ UNCHANGED viewVars
    /\ UNCHANGED <<steps, isScanning, notice, scanReqs, timers, loadPc, saveReqs>>
    /\ UNCHANGED serverGraph

\* a click on Save Layout: POST /api/graph/save with currentLayout
SaveLayout ==
    /\ AppRunning
    /\ saveReqs' = saveReqs + 1
    /\ prev' = View
    /\ lastOp' = Op("save", "", "", 0, 0, 0)
    /\ steps' = steps + 1
    /\ UNCHANGED viewVars
    /\ UNCHANGED <<isScanning, alerts, notice, scanReqs, timers, loadPc, polls>>
    /\ UNCHANGED serverGraph

\* POST /api/graph/save settles; lastOp.g keeps the requests in flight before
SaveSettles(outcome) ==
    /\ saveReqs > 0
    /\ saveReqs' = saveReqs - 1
    /\ notice' = SaveNotice(outcome)
    /\ prev' = View
    /\ lastOp' = Op("saveDone", "", outcome, saveReqs, 0, 0)
    /\ UNCHANGED viewVars
    /\ UNCHANGED <<steps, isScanning, alerts, scanReqs, timers, loadPc, polls>>
    /\ UNCHANGED serverGraph

\* the operator edits the layout between scans and saves
EditLayout(id) ==
    /\ AppRunning
    /\ WirelessToggle(id)

AppNext ==
    \/ HandleScan
    \/ \E ok \in BOOLEAN, g \in ServerGraphs : ScanSettles(ok, g)
    \/ TimerFires
    \/ \E origin \in {"mount", "scan"}, outcome \in GraphOutcomes :
           GraphSettles(origin, outcome)
    \/ \E origin \in {"mount", "scan"}, ok \in BOOLEAN, feed \in AlertFeeds :
           AlertsSettle(origin, ok, feed)
    \/ PollTick
    \/ \E ok \in BOOLEAN, feed \in AlertFeeds : PollSettles(ok, feed)
    \/ SaveLayout
    \/ \E outcome \in SaveOutcomes : SaveSettles(outcome)
    \/ \E id \in Ids : EditLayout(id)

\* every timeout fires and every request in flight resolves or rejects
AppFairness ==
    /\ WF_vars(TimerFires)
    /\ WF_vars(\E ok \in BOOLEAN, g \in ServerGraphs : ScanSettles(ok, g))
    /\ WF_vars(\E origin \in {"mount", "scan"}, outcome \in GraphOutcomes :
                   GraphSettles(origin, outcome))
    /\ WF_vars(\E origin \in {"mount", "scan"}, ok \in BOOLEAN,
                   feed \in AlertFeeds : AlertsSettle(origin, ok, feed))

SpecApp == Init /\ [][AppNext]_vars /\ AppFairness

\* the interval keeps ticking and its requests settle
PollFairness ==
    /\ WF_vars(PollTick)
    /\ WF_vars(\E ok \in BOOLEAN, feed \in AlertFeeds : PollSettles(ok, feed))

SpecAppPolling == SpecApp /\ PollFairness

(***************************************************************************)
(* The topology component under scans and collapse / expand alone.         *)
(***************************************************************************)
\* the snapshots of a scanner that knows nothing of collapsed subtrees
PlainSnapshots ==
    {g \in 1..Len(Snapshots) :
        \A i \in 1..Len(Snapshots[g].nodes) : ~ Snapshots[g].nodes[i].hidden}

CollapseNext ==
    \/ \E g \in PlainSnapshots : Reconcile(g)
    \/ \E id \in Ids : ToggleChildren(id)

SpecCollapse == Init /\ [][CollapseNext]_vars

(***************************************************************************)
(* Vocabulary of the properties.                                           *)
(***************************************************************************)
IdsOf(s) == [i \in 1..Len(s) |-> s[i].id]

Targets(S, eds) ==
    {eds[i].target : i \in {j \in 1..Len(eds) : eds[j].source \in S}}

RECURSIVE ReachFrom(_, _)
ReachFrom(S, eds) ==
    LET T == S \cup Targets(S, eds) IN
    IF T = S THEN S ELSE ReachFrom(T, eds)

\* the descendant closure: ids reachable from id by one or more edges
Closure(id, eds) == ReachFrom(Targets({id}, eds), eds)

Reconciled == lastOp.op = "reconcile"

\* the data-model invariant on edges: both ends are nodes of the state
Resolved(nds, eds) ==
    \A i \in 1..Len(eds) : HasId(nds, eds[i].source) /\ HasId(nds, eds[i].target)

\* the last operation was a toggle and its updater returned
Toggled == lastOp.op = "toggle" /\ status = "running"

(***************************************************************************)
(* C1  Idempotent merge: reconciling the reconciled ViewState once more    *)
(* with the same snapshot gives the same nodes and edges.                  *)
(***************************************************************************)
C1_IdempotentMerge ==
    Reconciled =>
        /\ ReconcileNodes(nodes, initialNodes) = nodes
        /\ ReconcileEdges(edges, initialEdges) = edges

\* a reconcile that kept operator-owned values differing from the snapshot's
C1_Witness ==
    /\ Reconciled
    /\ Len(prev.nodes) > 0 /\ Len(prev.edges) > 0 /\ Len(initialEdges) > 0
    /\ nodes # initialNodes
    /\ edges # initialEdges

(***************************************************************************)
(* C2  Attribute preservation: a node id in both S and G comes out with    *)
(* S's position, hidden and isWireless and with G's label and type.        *)
(***************************************************************************)
C2_AttributePreservation ==
    Reconciled =>
        \A i \in 1..Len(initialNodes) :
            LET g == initialNodes[i] IN
            HasId(prev.nodes, g.id) =>
                /\ HasId(nodes, g.id)
                /\ LET n == FindById(nodes, g.id)
                       s == FindById(prev.nodes, g.id)
                   IN  /\ n.position = s.position
                       /\ n.hidden = s.hidden
                       /\ n.isWireless = s.isWireless
                       /\ n.label = g.label
                       /\ n.type = g.type

\* the snapshot lists the nodes in another order and disagrees with S on a
\* node's position, hidden flag and label, and on a node's isWireless
C2_Witness ==
    /\ Reconciled
    /\ Len(prev.nodes) > 1
    /\ IdsOf(prev.nodes) # IdsOf(initialNodes)
    /\ SeqToSet(IdsOf(prev.nodes)) = SeqToSet(IdsOf(initialNodes))
    /\ \E i \in 1..Len(initialNodes) :
           LET g == initialNodes[i]
               s == FindById(prev.nodes, g.id)
           IN  /\ s.position # g.position
               /\ s.hidden # g.hidden
               /\ s.label # g.label
    /\ \E i \in 1..Len(initialNodes) :
           FindById(prev.nodes, initialNodes[i].id).isWireless
               # initialNodes[i].isWireless

(***************************************************************************)
(* C3  Existence follows the snapshot: the node ids of the result are the  *)
(* node ids of G; a node of G unknown to S enters with G's own values.     *)
(***************************************************************************)
C3_SnapshotDecidesExistence ==
    Reconciled =>
        /\ IdsOf(nodes) = IdsOf(initialNodes)
        /\ \A i \in 1..Len(initialNodes) :
               ~ HasId(prev.nodes, initialNodes[i].id) => nodes[i] = initialNodes[i]

\* one node of S is dropped and one node of G is new, and the snapshot has
\* that node hidden and wireless
C3_Witness ==
    /\ Reconciled
    /\ \E i \in 1..Len(prev.nodes) : ~ HasId(initialNodes, prev.nodes[i].id)
    /\ \E i \in 1..Len(initialNodes) :
           /\ ~ HasId(prev.nodes, initialNodes[i].id)
           /\ initialNodes[i].isWireless /\ initialNodes[i].hidden

(***************************************************************************)
(* C4  Edge merge: the edges of the result have exactly the ids of G's     *)
(* edges; an id in both keeps S's style and animated, an id only in G      *)
(* comes with G's values, an id only in S is dropped.                      *)
(***************************************************************************)
C4_EdgeMerge ==
    Reconciled =>
        /\ IdsOf(edges) = IdsOf(initialEdges)
        /\ \A i \in 1..Len(initialEdges) :
               LET g == initialEdges[i] IN
               /\ HasId(edges, g.id)
               /\ LET e == FindById(edges, g.id) IN
                  IF HasId(prev.edges, g.id)
                  THEN /\ e.style = FindById(prev.edges, g.id).style
                       /\ e.animated = FindById(prev.edges, g.id).animated
                  ELSE e = g

(***************************************************************************)
(* C5  No dangling edge: the source and the target of every edge are ids   *)
(* of nodes of the same ViewState.                                         *)
(***************************************************************************)
C5_EdgesResolve == Resolved(nodes, edges)

(***************************************************************************)
(* C6  Full-closure toggle: after toggleChildren(A) every node reachable   *)
(* from A by one or more edges carries one and the same hidden value, and  *)
(* when all nodes were visible before, all of them are hidden.             *)
(***************************************************************************)
C6_FullClosureToggle ==
    Toggled =>
        LET cl == Closure(lastOp.id, edges) IN
        /\ \A i, j \in 1..Len(nodes) :
               (nodes[i].id \in cl /\ nodes[j].id \in cl)
                   => nodes[i].hidden = nodes[j].hidden
        /\ (\A i \in 1..Len(prev.nodes) : ~ prev.nodes[i].hidden)
               => \A i \in 1..Len(nodes) : nodes[i].id \in cl => nodes[i].hidden

\* the chain A -> B -> C -> D, all visible, toggled at A: B, C and D hidden
C6_Witness ==
    /\ Toggled
    /\ lastOp.id = "A"
    /\ IdsOf(nodes) = <<"A", "B", "C", "D">>
    /\ IdsOf(edges) = <<"eA-B", "eB-C", "eC-D">>
    /\ \A i \in 1..4 : ~ prev.nodes[i].hidden
    /\ ~ nodes[1].hidden /\ nodes[2].hidden /\ nodes[3].hidden /\ nodes[4].hidden

(***************************************************************************)
(* C7  Toggle involution, as stated: toggling A once more right after a    *)
(* toggle of A gives back the ViewState from before the first toggle.      *)
(* Stated on ViewStates without dangling edge.                             *)
(***************************************************************************)
C7_ToggleInvolution ==
    (Toggled /\ Resolved(prev.nodes, prev.edges)) =>
        OnToggleChildren(nodes, edgesRef, lastOp.id).nodes = prev.nodes

\* before the toggle of id: its first direct child is a node of the state and
\* every node of its descendant closure has that child's hidden value
UniformClosure(nds, eds, id) ==
    LET kids == ChildrenOf(id, eds) IN
    Len(kids) > 0 =>
        /\ HasId(nds, kids[1])
        /\ \A i \in 1..Len(nds) :
               nds[i].id \in Closure(id, eds)
                   => nds[i].hidden = FindById(nds, kids[1]).hidden

(***************************************************************************)
(* C7 amended: the second toggle of A gives back the ViewState from before *)
(* the first whenever both toggles return and, before the first, A's first *)
(* direct child is present and the whole closure has one hidden value.     *)
(***************************************************************************)
C7_ToggleInvolutionUniform ==
    (Toggled /\ UniformClosure(prev.nodes, prev.edges, lastOp.id)) =>
        LET again == OnToggleChildren(nodes, edgesRef, lastOp.id) IN
        again.ok /\ again.nodes = prev.nodes

\* a toggle that hid a closure of at least two visible nodes
C7_Witness ==
    /\ Toggled
    /\ UniformClosure(prev.nodes, prev.edges, lastOp.id)
    /\ Cardinality({i \in 1..Len(nodes) :
           nodes[i].hidden /\ ~ prev.nodes[i].hidden}) >= 2

(***************************************************************************)
(* C8  Frame of the toggle: only the hidden flag of nodes in A's closure   *)
(* may change; A, the nodes outside the closure, every position and        *)
(* isWireless and the edge list stay, and a node without outgoing edge     *)
(* leaves the ViewState as it was.                                         *)
(***************************************************************************)
C8_ToggleFrame ==
    Toggled =>
        LET cl == Closure(lastOp.id, prev.edges) IN
        /\ edges = prev.edges
        /\ Len(nodes) = Len(prev.nodes)
        /\ \A i \in 1..Len(nodes) :
               /\ [nodes[i] EXCEPT !.hidden = prev.nodes[i].hidden] = prev.nodes[i]
               /\ (nodes[i].id \notin cl \/ nodes[i].id = lastOp.id)
                      => nodes[i] = prev.nodes[i]
        /\ ChildrenOf(lastOp.id, prev.edges) = <<>> => nodes = prev.nodes

\* a toggle that changed a node while a third node lies outside the closure
C8_Witness ==
    /\ Toggled
    /\ nodes # prev.nodes
    /\ \E i \in 1..Len(nodes) :
           /\ nodes[i].id # lastOp.id
           /\ nodes[i].id \notin Closure(lastOp.id, prev.edges)

(***************************************************************************)
(* C9  Direction of the toggle: the target of the first edge, in edge-list *)
(* order, whose source is A decides; hidden false or no such node hides    *)
(* every descendant, hidden true shows every descendant.                   *)
(***************************************************************************)
FirstChild(id, eds) ==
    eds[Min({i \in 1..Len(eds) : eds[i].source = id})].target

C9_FirstChildDecides ==
    (Toggled /\ \E i \in 1..Len(prev.edges) : prev.edges[i].source = lastOp.id) =>
        LET first == FirstChild(lastOp.id, prev.edges)
            hide == ~ (HasId(prev.nodes, first) /\ FindById(prev.nodes, first).hidden)
        IN  \A i \in 1..Len(nodes) :
                nodes[i].id \in Closure(lastOp.id, prev.edges)
                    => nodes[i].hidden = hide

\* the toggled node has two direct children whose hidden flags differed
C9_Witness ==
    /\ Toggled
    /\ \E i, j \in 1..Len(prev.nodes) :
           /\ {prev.nodes[i].id, prev.nodes[j].id}
                  \subseteq Targets({lastOp.id}, prev.edges)
           /\ prev.nodes[i].hidden # prev.nodes[j].hidden

(***************************************************************************)
(* C10  The closure computation of toggleChildren and of the drag-stop     *)
(* handler returns a ViewState for every edge list, cyclic ones included.  *)
(***************************************************************************)
C10_ClosureTerminates ==
    lastOp.op \in {"toggle", "drag"} => status = "running"

(***************************************************************************)
(* C11  Drag scoping: a completed drag of A by a non-zero (dx, dy) adds    *)
(* (dx, dy) to the position of every hidden node of A's descendant closure *)
(* and leaves every visible node of the closure, and every node outside    *)
(* it, where it was.                                                       *)
(***************************************************************************)
Dragged == lastOp.op = "drag" /\ status = "running"

C11_DragScoping ==
    (Dragged /\ ~ (lastOp.dx = 0 /\ lastOp.dy = 0)) =>
        /\ Len(nodes) = Len(prev.nodes)
        /\ \A i \in 1..Len(nodes) :
               LET p == prev.nodes[i] IN
               nodes[i] =
                   IF p.id = lastOp.id
                      \/ (p.id \in Closure(lastOp.id, prev.edges) /\ p.hidden)
                   THEN Shift(p, lastOp.dx, lastOp.dy)
                   ELSE p

\* one hidden and one visible node under the node dragged by (10, 5)
C11_Witness ==
    /\ Dragged /\ lastOp.dx = 10 /\ lastOp.dy = 5
    /\ \E i, j \in 1..Len(nodes) :
           /\ {nodes[i].id, nodes[j].id} \subseteq Closure(lastOp.id, edges)
           /\ nodes[i].hidden /\ nodes[i] = Shift(prev.nodes[i], 10, 5)
           /\ ~ nodes[j].hidden /\ nodes[j] = prev.nodes[j]

(***************************************************************************)
(* C12  A drag whose end position is its start position returns and        *)
(* leaves the ViewState as it was: no position, hidden flag or edge        *)
(* changes.                                                                *)
(***************************************************************************)
C12_ZeroDeltaDrag ==
    (lastOp.op = "drag" /\ lastOp.dx = 0 /\ lastOp.dy = 0) =>
        /\ status = "running"
        /\ nodes = prev.nodes
        /\ edges = prev.edges

\* a zero-delta drag of a node with a hidden descendant, on a cyclic edge list
C12_Witness ==
    /\ lastOp.op = "drag" /\ lastOp.dx = 0 /\ lastOp.dy = 0
    /\ lastOp.id \in Closure(lastOp.id, edges)
    /\ \E i \in 1..Len(nodes) :
           nodes[i].id \in Closure(lastOp.id, edges) /\ nodes[i].hidden

(***************************************************************************)
(* C13  The roots of the tree come out by the rank of their label in the   *)
(* priority list, unmatched roots last, and roots of equal rank in the     *)
(* order in which their nodes stand in the input node list.                *)
(***************************************************************************)
PlaceOf(nds, id) == Min({i \in 1..Len(nds) : nds[i].id = id})

C13_RootOrdering ==
    LET t == TreeData
        rank(i) == GetOrder(t.nodeMap[t.roots[i]].label)
    IN  \A i, j \in 1..Len(t.roots) :
            i < j =>
                /\ rank(i) <= rank(j)
                /\ rank(i) = rank(j) =>
                       PlaceOf(TreeProps.nodes, t.roots[i])
                           < PlaceOf(TreeProps.nodes, t.roots[j])

(***************************************************************************)
(* C14  The projection ignores every edge whose source or target is not an *)
(* input node: it adds no child, its target stays a root unless a resolved *)
(* edge points at it, and no unknown id appears in the forest.             *)
(***************************************************************************)
Dangling(nds, e) == ~ HasId(nds, e.source) \/ ~ HasId(nds, e.target)

C14_DanglingEdgesIgnored ==
    LET t == TreeData
        nds == TreeProps.nodes
        eds == TreeProps.edges
        known == SeqToSet(IdsOf(nds))
        sound == {i \in 1..Len(eds) : ~ Dangling(nds, eds[i])}
    IN  /\ DOMAIN t.nodeMap = known
        /\ SeqToSet(t.roots) = known \ {eds[i].target : i \in sound}
        /\ \A id \in known :
               /\ SeqToSet(t.nodeMap[id].children) \subseteq known
               /\ Len(t.nodeMap[id].children)
                      = Cardinality({i \in sound : eds[i].source = id})

\* an edge from an unknown source points at a known node, which is a root
C14_Witness ==
    \E i \in 1..Len(TreeProps.edges) :
        LET e == TreeProps.edges[i] IN
        /\ ~ HasId(TreeProps.nodes, e.source)
        /\ HasId(TreeProps.nodes, e.target)
        /\ e.target \in SeqToSet(TreeData.roots)

(***************************************************************************)
(* C15  setWireless(S, n, w) sets isWireless = w on n and makes every edge *)
(* with target n dashed and animated when w, solid and not animated when   *)
(* not w; every other node and every other edge is as it was.              *)
(***************************************************************************)
Restyled(e, w) ==
    [e EXCEPT !.style = IF w THEN "5,5" ELSE "0", !.animated = w]

Incoming(id, eds) == {i \in 1..Len(eds) : eds[i].target = id}

C15_SetWireless ==
    lastOp.op = "wireless" =>
        LET n == lastOp.id
            w == ~ FindById(prev.nodes, n).isWireless
        IN  /\ Len(nodes) = Len(prev.nodes)
            /\ Len(edges) = Len(prev.edges)
            /\ \A i \in 1..Len(nodes) :
                   nodes[i] = IF prev.nodes[i].id = n
                              THEN [prev.nodes[i] EXCEPT !.isWireless = w]
                              ELSE prev.nodes[i]
            /\ \A i \in 1..Len(edges) :
                   edges[i] = IF prev.edges[i].target = n
                              THEN Restyled(prev.edges[i], w)
                              ELSE prev.edges[i]

\* wireless switched off on a node with several incoming edges, beside
\* edges that point elsewhere
C15_Witness ==
    /\ lastOp.op = "wireless"
    /\ ~ FindById(nodes, lastOp.id).isWireless
    /\ Cardinality(Incoming(lastOp.id, edges)) >= 2
    /\ \A i \in Incoming(lastOp.id, edges) :
           edges[i].style = "0" /\ prev.edges[i].style = "5,5"
    /\ \E i \in 1..Len(edges) : edges[i].target # lastOp.id

(***************************************************************************)
(* C16  A reconcile with a snapshot that still lists node n and the id of  *)
(* an edge into n leaves n.isWireless, and the style and animated of that  *)
(* edge, as they were before it, so as setWireless set them.               *)
(***************************************************************************)
C16_WirelessSurvivesReconcile ==
    Reconciled =>
        LET G == Snapshots[lastOp.g] IN
        \A i \in 1..Len(prev.nodes) :
            LET n == prev.nodes[i] IN
            HasId(G.nodes, n.id) =>
                /\ FindById(nodes, n.id).isWireless = n.isWireless
                /\ \A k \in Incoming(n.id, prev.edges) :
                       LET e == prev.edges[k] IN
                       HasId(G.edges, e.id) =>
                           /\ FindById(edges, e.id).style = e.style
                           /\ FindById(edges, e.id).animated = e.animated

\* the snapshot carries another wireless value and another edge style than
\* the ones setWireless left
C16_Witness ==
    /\ Reconciled
    /\ LET G == Snapshots[lastOp.g] IN
       \E i \in 1..Len(prev.nodes) :
           LET n == prev.nodes[i] IN
           /\ HasId(G.nodes, n.id)
           /\ FindById(G.nodes, n.id).isWireless # n.isWireless
           /\ \E k \in Incoming(n.id, prev.edges) :
                  LET e == prev.edges[k] IN
                  /\ e.style = (IF n.isWireless THEN "5,5" ELSE "0")
                  /\ HasId(G.edges, e.id)
                  /\ FindById(G.edges, e.id).style # e.style
                  /\ FindById(edges, e.id).style = e.style

(***************************************************************************)
(* C17  Only toggleChildren turns a node hidden, and only a node of the    *)
(* toggled node's descendant closure: after reconcile, drag, setWireless,  *)
(* connect or edge delete a hidden node was hidden before, unless the      *)
(* snapshot itself marks it hidden.                                        *)
(***************************************************************************)
WasHidden(id) == HasId(prev.nodes, id) /\ FindById(prev.nodes, id).hidden

C17_HiddenOnlyByToggle ==
    \A i \in 1..Len(nodes) :
        (nodes[i].hidden /\ ~ WasHidden(nodes[i].id)) =>
            \/ /\ lastOp.op = "toggle"
               /\ nodes[i].id \in Closure(lastOp.id, prev.edges)
            \/ /\ lastOp.op = "reconcile"
               /\ HasId(Snapshots[lastOp.g].nodes, nodes[i].id)
               /\ FindById(Snapshots[lastOp.g].nodes, nodes[i].id).hidden

\* a reconcile with a snapshot that marks nothing hidden, in another order:
\* a collapsed node stays hidden and a new node comes in visible
C17_Witness ==
    /\ Reconciled
    /\ \A i \in 1..Len(Snapshots[lastOp.g].nodes) :
           ~ Snapshots[lastOp.g].nodes[i].hidden
    /\ \E i \in 1..Len(nodes) :
           /\ nodes[i].hidden /\ WasHidden(nodes[i].id)
           /\ PlaceOf(prev.nodes, nodes[i].id) # i
    /\ \E i \in 1..Len(nodes) : ~ HasId(prev.nodes, nodes[i].id)

(***************************************************************************)
(* C18  A snapshot fetch or an alert fetch that fails leaves the nodes and *)
(* edges handed to the topology component and the ViewState as they were   *)
(* and shows no dialog; the state of the first load is the empty graph.    *)
(***************************************************************************)
FetchFailed ==
    lastOp.op \in {"graphDone", "alertsDone", "pollDone"} /\ lastOp.to = "failed"

C18_FetchFailureKeepsState ==
    /\ nodes = <<>> /\ edges = <<>>
    /\ [][FetchFailed' =>
              UNCHANGED <<nodes, edges, initialNodes, initialEdges, alerts,
                          notice>>]_vars

\* the post-scan snapshot fetch fails on a graph the first load brought
C18_Witness ==
    /\ FetchFailed /\ lastOp.op = "graphDone" /\ lastOp.id = "scan"
    /\ Len(nodes) > 0 /\ nodes = prev.nodes /\ edges = prev.edges
    /\ notice = ""

(***************************************************************************)
(* C19  A save-layout request that fails, by a transport error or by an    *)
(* error response, ends with the error notice, is not sent again, and      *)
(* leaves the ViewState as the operator edited it.                         *)
(***************************************************************************)
C19_SaveFailureNotice ==
    (lastOp.op = "saveDone" /\ lastOp.to \in {"httpError", "networkError"}) =>
        /\ notice = "error"
        /\ saveReqs = lastOp.g - 1
        /\ View = prev

(***************************************************************************)
(* C20  A click on Scan Network sets isScanning with the scan request in   *)
(* flight and one post-scan timeout pending; while isScanning holds there  *)
(* is exactly one re-fetch, pending or running; and isScanning returns to  *)
(* FALSE whatever the scan request and the re-fetch do.                    *)
(***************************************************************************)
C20_ScanCycle ==
    /\ [](lastOp.op = "scan" =>
             isScanning /\ scanReqs >= 1 /\ timers = 1 /\ loadPc.scan = "idle")
    /\ [](IF isScanning
          THEN \/ timers = 1 /\ loadPc.scan = "idle"
               \/ timers = 0 /\ loadPc.scan # "idle"
          ELSE timers = 0 /\ loadPc.scan = "idle")
    /\ (isScanning ~> ~ isScanning)

\* the re-fetch has failed and isScanning is reset while the scan request
\* is still in flight
C20_Witness ==
    /\ lastOp.op = "graphDone" /\ lastOp.id = "scan" /\ lastOp.to = "failed"
    /\ ~ isScanning /\ prev = View
    /\ scanReqs >= 1

(***************************************************************************)
(* C21  The interval re-fetches the topology snapshot: once the scan cycle *)
(* is over (no scan request, timeout or loadData call is left) with the    *)
(* view behind the server, because the scan finished after the post-scan   *)
(* re-fetch ran, the periodic poll brings the server's snapshot into the   *)
(* props of the topology component with no further click.                  *)
(***************************************************************************)
CycleOver ==
    /\ ~ isScanning /\ scanReqs = 0 /\ timers = 0
    /\ loadPc = [mount |-> "done", scan |-> "idle"]

Fresh ==
    /\ initialNodes = Snapshots[serverGraph].nodes
    /\ initialEdges = Snapshots[serverGraph].edges

\* the scan has just finished, after the post-scan re-fetch ran
ScanFinishedLate ==
    /\ lastOp.op = "scanDone" /\ lastOp.to = "ok"
    /\ CycleOver /\ ~ Fresh
    /\ \E g \in ServerGraphs : /\ initialNodes = Snapshots[g].nodes
                                /\ initialEdges = Snapshots[g].edges

C21_PeriodicSnapshotPoll == ScanFinishedLate ~> Fresh

(***************************************************************************)
(* C22  Whenever the ViewState has a node, the lists handed to the tree    *)
(* projection are the ViewState's nodes and edges.                         *)
(***************************************************************************)
C22_TreeShowsViewState ==
    Len(nodes) > 0 => TreeProps.nodes = nodes /\ TreeProps.edges = edges

(***************************************************************************)
(* C23  Every edge whose target is a node of the ViewState is animated and *)
(* dashed exactly when that node is wireless.                              *)
(***************************************************************************)
C23_EdgesMirrorWireless ==
    \A i \in 1..Len(edges) :
        HasId(nodes, edges[i].target) =>
            LET w == FindById(nodes, edges[i].target).isWireless IN
            /\ edges[i].animated = w
            /\ (edges[i].style = "5,5") = w

(***************************************************************************)
(* C24  After a completed drag the offset between every hidden node and    *)
(* each nearest visible ancestor (a visible node with a path to it through *)
(* hidden nodes only) is what it was before the drag.                      *)
(***************************************************************************)
HiddenIds(nds) == {nds[i].id : i \in {j \in 1..Len(nds) : nds[j].hidden}}

\* the hidden nodes that hang under the visible node v
HiddenBelow(v, nds, eds) ==
    LET H == HiddenIds(nds)
        inner == SelectSeq(eds, LAMBDA e : e.source \in H /\ e.target \in H)
    IN  ReachFrom(Targets({v}, eds) \cap H, inner)

Offset(nds, v, h) ==
    [x |-> FindById(nds, h).position.x - FindById(nds, v).position.x,
     y |-> FindById(nds, h).position.y - FindById(nds, v).position.y]

C24_RigidCollapsedSubtree ==
    (Dragged /\ Len(nodes) = Len(prev.nodes)) =>
        \A i \in 1..Len(nodes) :
            ~ nodes[i].hidden =>
                \A h \in HiddenBelow(nodes[i].id, nodes, edges) :
                    Offset(nodes, nodes[i].id, h)
                        = Offset(prev.nodes, nodes[i].id, h)

(***************************************************************************)
(* C25  In a completed non-zero drag a hidden node that the dragged node   *)
(* reaches along several paths is moved by the delta once.                 *)
(***************************************************************************)
\* the paths from id to each node, as getDescendants lists them
PathsFrom(id, eds) == GetDescendants(ChildrenOf(id, eds), eds, 1)

C25_MovedOncePerNode ==
    (Dragged /\ ~ (lastOp.dx = 0 /\ lastOp.dy = 0)) =>
        \A i \in 1..Len(prev.nodes) :
            LET p == prev.nodes[i] IN
            (p.hidden /\ p.id # lastOp.id
                /\ Occurrences(PathsFrom(lastOp.id, prev.edges).ids, p.id) >= 2)
            => FindById(nodes, p.id).position =
                   [x |-> p.position.x + lastOp.dx, y |-> p.position.y + lastOp.dy]

\* a hidden node at the bottom of a diamond, dragged along by (10, 5)
C25_Witness ==
    /\ Dragged /\ lastOp.dx = 10 /\ lastOp.dy = 5
    /\ \E i \in 1..Len(nodes) :
           /\ nodes[i].hidden
           /\ Occurrences(PathsFrom(lastOp.id, edges).ids, nodes[i].id) >= 2
           /\ nodes[i] = Shift(prev.nodes[i], 10, 5)

(***************************************************************************)
(* C26  Under scans and toggles every hidden node lies in the descendant   *)
(* closure of a visible node.                                              *)
(***************************************************************************)
C26_HiddenUnderVisible ==
    \A i \in 1..Len(nodes) :
        nodes[i].hidden =>
            \E j \in 1..Len(nodes) :
                /\ ~ nodes[j].hidden
                /\ nodes[i].id \in Closure(nodes[j].id, edges)

(***************************************************************************)
(* C27  For unique node ids and an acyclic edge list, every input node is  *)
(* in the forest, the roots are the nodes no edge between known nodes      *)
(* points at, and a node is in the children list of each of its known      *)
(* parents.                                                                *)
(***************************************************************************)
UniqueIds(nds) == \A i, j \in 1..Len(nds) : nds[i].id = nds[j].id => i = j

Acyclic(eds) ==
    \A i \in 1..Len(eds) : eds[i].source \notin Closure(eds[i].source, eds)

RECURSIVE ForestFrom(_, _)
ForestFrom(S, t) ==
    LET T == S \cup UNION {SeqToSet(t.nodeMap[id].children) : id \in S}
    IN  IF T = S THEN S ELSE ForestFrom(T, t)

\* the ids of the records the forest shows
ForestIds(t) == ForestFrom(SeqToSet(t.roots), t)

C27_ForestCoversGraph ==
    LET nds == TreeProps.nodes
        eds == TreeProps.edges
        t == TreeData
        known == SeqToSet(IdsOf(nds))
        sound == {i \in 1..Len(eds) : ~ Dangling(nds, eds[i])}
    IN  (UniqueIds(nds) /\ Acyclic(eds)) =>
            /\ ForestIds(t) = known
            /\ SeqToSet(t.roots) = known \ {eds[i].target : i \in sound}
            /\ \A i \in sound :
                   eds[i].target \in SeqToSet(t.nodeMap[eds[i].source].children)

\* a node with two parents stands in the children list of both
C27_Witness ==
    /\ UniqueIds(TreeProps.nodes) /\ Acyclic(TreeProps.edges)
    /\ \E id \in DOMAIN TreeData.nodeMap :
           Cardinality({p \in DOMAIN TreeData.nodeMap :
               id \in SeqToSet(TreeData.nodeMap[p].children)}) >= 2

====
